---------------------------- MODULE Spec2Model ----------------------------
(***************************************************************************)
(* Trade lifecycle of the flash-loan arbitrage bot (src/bot/main.py,       *)
(* src/bot/transaction_executor.py, src/bot/mev_protector.py) and its    *)
(* price scanner (src/bot/arbitrage_scanner.py).                           *)
(*                                                                         *)
(* One asyncio event loop runs four coroutines (scanning, execution,       *)
(* monitoring, health check).  A coroutine gives up control only where it  *)
(* awaits asyncio.sleep; every other await in the sources awaits a         *)
(* coroutine whose body blocks (web3 / requests calls) and does not yield. *)
(* A loop therefore steps only while every other loop is parked in a       *)
(* sleep.  Module-level names the sources use without importing them       *)
(* (logger, asyncio, datetime, abi, geth_poa_middleware) are read as the   *)
(* library objects they name.                                              *)
(*                                                                         *)
(* A trade is a Python dict object; the arena `trades` holds the live      *)
(* objects, an index into it is the object's identity.  active_trades is   *)
(* a dict id -> object kept as a sequence of entries in insertion order,   *)
(* which is the order dict.values() iterates in.  An object that nothing   *)
(* refers to any more (a pending trade whose table entry was overwritten)  *)
(* is freed and its slot taken by the object that replaced it.             *)
(*                                                                         *)
(* The clock readings one call of _process_opportunity makes (time_ns,    *)
(* time, datetime.now) are taken as one reading.  sha256 is taken to be    *)
(* collision-free: a digest is modelled by the string it is computed from. *)
(***************************************************************************)
EXTENDS Integers, Sequences, FiniteSets, TLC

\* ---------------------------------------------------------------- bounds
MaxTrades == 2          \* live trade objects
MaxProtected == 3       \* cap of the protected_txs counter
MaxOpps == 2            \* opportunities returned by one scan
MaxTime == 1            \* last clock tick
TicksPerSecond == 2     \* clock ticks in one second of int(timestamp())
MaxPolls == 2           \* receipt polls that fit in the confirmation window
MaxOrders == 2          \* protect_opportunity calls checked on their own
MaxNonce == 11          \* largest nonce of those calls
MaxTimestamp == 10      \* largest int(time.time()) of those calls
MantissaBits == 4       \* significand bits kept of a Python float (of its 53)
MaxFinalized == 101     \* trades brought to their end in one long run
MaxClock == 400         \* last second of the wait of one pending trade
Decimals == 1           \* decimal places kept of the factor 10**18 (of its 18)

\* ------------------------------------------------- configuration, inputs
estimated_gas == 500000
min_profit == 2 * estimated_gas
RpcError == 0 - 1
GasPrices == {RpcError, 1}
BaseAssets == {"WMATIC", "WETH"}
ExpectedProfits == {2 * estimated_gas, 3 * estimated_gas}
Opportunities == [base_asset : BaseAssets, expected_profit : ExpectedProfits]
default_trade_size == 1
executor_address == "0xExecutor"
history_capacity == 100
max_gas_price_absolute == 500
signature_validity == 300
confirmation_timeout == 120
GasPriceReadings == {0, 1, 416, 417, 499, 1000}
Loops == {"scanning", "execution", "monitoring", "health_check"}
NoTx == [nonce |-> 0 - 1, deadline |-> 0 - 1, maxGasPrice |-> 0 - 1,
         maxFeePerGas |-> 0 - 1, maxPriorityFeePerGas |-> 0 - 1]

VARIABLES
    is_running,       \* bot.is_running
    stopped,          \* stop() has saved the state
    now,              \* wall clock at its last reading, in ticks
    trades,           \* arena of trade dict objects
    outcome,          \* what the network did with each trade's transaction
    active_trades,    \* bot.active_trades
    trade_history,    \* bot.trade_history
    trades_executed,  \* bot.stats['trades_executed']
    trades_successful,\* bot.stats['trades_successful']
    trade_alerts,     \* calls of alerts.send_trade_alert made so far
    protected_txs,    \* mev_protector.stats['protected_txs']
    pending_transactions, \* keys of mev_protector.pending_transactions
    scan_pc,          \* scanning loop: position
    scan_todo,        \* scanning loop: opportunities of this scan not yet taken
    exec_pc,          \* execution loop: position
    best_trade,       \* execution loop: local best_trade (0 = unset)
    polls,            \* _wait_for_execution: sleeps taken so far
    success,          \* execute_trade's return value
    orders,           \* protect_opportunity called on its own: orders returned
    tx_data,          \* _build_transaction called on its own: what it returned
    loop_pc,          \* the four loops by their control flow alone: where each is
    trading,          \* scanner: config['trading']
    answers,          \* scanner: what each router's getAmountsOut call does
    prices,           \* scanner: _get_prices_for_pair's list
    opportunities     \* scanner: _scan_pair's list

vars == <<is_running, stopped, now, trades, outcome, active_trades,
          trade_history, trades_executed, trade_alerts, trades_successful, protected_txs,
          pending_transactions, scan_pc, scan_todo, exec_pc, best_trade, polls,
          success, orders, tx_data, loop_pc, trading, answers, prices,
          opportunities>>

botVars == <<trades, outcome, active_trades, trade_history, trades_executed, trade_alerts,
             trades_successful, protected_txs, pending_transactions>>
scanVars == <<scan_pc, scan_todo>>
execVars == <<exec_pc, best_trade, polls, success>>
envVars == <<is_running, stopped, now>>
scannerVars == <<trading, answers, prices, opportunities>>

\* ----------------------------------------------------------- dict helpers
DictHas(d, k) == \E i \in 1..Len(d) : d[i].key = k

\* d[k] = v: an existing key keeps its place, a new key goes last.
DictSet(d, k, v) ==
    IF DictHas(d, k)
    THEN [i \in 1..Len(d) |-> IF d[i].key = k THEN [key |-> k, val |-> v] ELSE d[i]]
    ELSE Append(d, [key |-> k, val |-> v])

\* del d[k]
DictDel(d, k) == SelectSeq(d, LAMBDA e : e.key # k)

\* list(d.values())
DictValues(d) == [i \in 1..Len(d) |-> d[i].val]

Terminal(s) == s \in {"success", "failed"}

\* ------------------------------------------------------ float arithmetic
\* A Python float is kept as the fraction n/d it stands for, in lowest
\* terms with d > 0; every operation rounds its exact result to the nearest
\* number of MantissaBits significant bits, ties to even, as IEEE 754 does
\* with 53.
Abs(x) == IF x < 0 THEN 0 - x ELSE x

RECURSIVE GCD(_, _)
GCD(a, b) == IF b = 0 THEN a ELSE GCD(b, a % b)

Rat(n, d) ==
    LET g == GCD(Abs(n), d)
    IN  [n |-> (IF n < 0 THEN 0 - (Abs(n) \div g) ELSE n \div g), d |-> d \div g]

Zero == Rat(0, 1)
One == Rat(1, 1)

RECURSIVE Pow2(_)
Pow2(k) == IF k = 0 THEN 1 ELSE 2 * Pow2(k - 1)

RECURSIVE Normalize(_, _, _)
\* <<n', d', e>> with n/d = n'/d' * 2^e and 2^(MantissaBits-1) <= n'/d' < 2^MantissaBits
Normalize(n, d, e) ==
    IF n >= d * Pow2(MantissaBits) THEN Normalize(n, 2 * d, e + 1)
    ELSE IF n < d * Pow2(MantissaBits - 1) THEN Normalize(2 * n, d, e - 1)
    ELSE <<n, d, e>>

RoundHalfEven(n, d) ==
    LET q == n \div d
        r == n % d
    IN  IF 2 * r > d \/ (2 * r = d /\ q % 2 = 1) THEN q + 1 ELSE q

\* The float nearest to n/d, d > 0.
Float(n, d) ==
    IF n = 0 THEN Zero
    ELSE LET t == Normalize(Abs(n), d, 0)
             m == RoundHalfEven(t[1], t[2]) * (IF n < 0 THEN 0 - 1 ELSE 1)
         IN  IF t[3] >= 0 THEN Rat(m * Pow2(t[3]), 1) ELSE Rat(m, Pow2(0 - t[3]))

FMul(x, y) == Float(x.n * y.n, x.d * y.d)
FDiv(x, y) == Float(x.n * y.d, x.d * y.n)
FSub(x, y) == Float(x.n * y.d - y.n * x.d, x.d * y.d)
FAbs(x) == [n |-> Abs(x.n), d |-> x.d]
Less(x, y) == x.n * y.d < y.n * x.d

\* int(x) for a float x: the integer part, rounded towards zero.
Truncate(x) == IF x.n < 0 THEN 0 - ((0 - x.n) \div x.d) ELSE x.n \div x.d

RECURSIVE Pow10(_)
Pow10(k) == IF k = 0 THEN 1 ELSE 10 * Pow10(k - 1)

\* A loop parked in asyncio.sleep, or ended.
SuspendedOnReturn(pc) == pc \in {"sleep", "poll_sleep", "returned", "done"}

Suspended(pc) == pc \in {"sleep", "poll_sleep", "done"}

\* -------------------------------------------------------------- scanner
\* One trading pair, two routers.  A router's getAmountsOut call raises or
\* returns amounts with amounts[1] = amount * 10**18.
Routers == {"R1", "R2"}
Amounts == {Zero, Rat(11, 8), Rat(3, 2), Rat(13, 8)}
Answers ==
    {[raises |-> TRUE, amount |-> Zero]}
        \cup {[raises |-> FALSE, amount |-> a] : a \in Amounts}
MinPriceDiffs == {Rat(3, 32), Rat(1, 4)}
DexFeePercents == {Zero, Rat(5, 32)}
DefaultTradeSizes == {1, 3}
EnabledRouters == {<<"R1">>, <<"R1", "R1">>, <<"R1", "R2">>, <<"R2", "R1">>}
TradingConfigs ==
    [min_price_diff : MinPriceDiffs, dex_fee_percent : DexFeePercents,
     default_trade_size : DefaultTradeSizes, enabled_routers : EnabledRouters]
NoRouters ==
    [min_price_diff |-> Zero, dex_fee_percent |-> Zero,
     default_trade_size |-> default_trade_size, enabled_routers |-> <<>>]

\* arbitrage_scanner.py:197-201
GetPriceFromApi == One

\* arbitrage_scanner.py:172-195: amounts[1] / 10**18 as a float, or the
\* fallback when the call raises.
GetPriceFromRouter(answer) ==
    IF answer.raises THEN GetPriceFromApi
    ELSE Float(answer.amount.n, answer.amount.d)

RECURSIVE PricesFrom(_, _)
PricesFrom(enabled_routers, i) ==
    IF i > Len(enabled_routers) THEN <<>>
    ELSE LET router == enabled_routers[i]
             price == GetPriceFromRouter(answers[router])
         IN  (IF Less(Zero, price)
              THEN <<[router |-> router, price |-> price]>> ELSE <<>>)
                 \o PricesFrom(enabled_routers, i + 1)

\* arbitrage_scanner.py:148-170
GetPricesForPair(enabled_routers) == PricesFrom(enabled_routers, 1)

\* arbitrage_scanner.py:227, the factor 10**18 of the conversion to wei.
WeiPerToken == Pow10(Decimals)

\* arbitrage_scanner.py:203-227
CalculateExpectedProfit(trade_size, buy_price, sell_price) ==
    LET buy_amount == Float(trade_size, 1)
        sell_amount == FDiv(FMul(buy_amount, sell_price), buy_price)
        after_fee == FMul(sell_amount, FSub(One, trading.dex_fee_percent))
        expected_profit == FSub(after_fee, buy_amount)
    IN  Truncate(FMul(expected_profit, Float(WeiPerToken, 1)))

FirstPrice(price1, price2) == price1

\* arbitrage_scanner.py:97, min(price1, price2)
MinPrice(price1, price2) == IF Less(price2, price1) THEN price2 ELSE price1

\* arbitrage_scanner.py:96-97
PriceDiffPercent(price1, price2) ==
    FDiv(FAbs(FSub(price1, price2)), MinPrice(price1, price2))

DirectionOfEnumeration(q1, q2) ==
    [buy_router |-> q1.router, sell_router |-> q2.router,
     buy_price |-> IF Less(q1.price, q2.price) THEN q1.price ELSE q2.price,
     sell_price |-> IF Less(q1.price, q2.price) THEN q2.price ELSE q1.price]

\* arbitrage_scanner.py:105-118
Direction(q1, q2) ==
    IF Less(q1.price, q2.price)
    THEN [buy_router |-> q1.router, sell_router |-> q2.router,
          buy_price |-> q1.price, sell_price |-> q2.price]
    ELSE [buy_router |-> q2.router, sell_router |-> q1.router,
          buy_price |-> q2.price, sell_price |-> q1.price]

\* arbitrage_scanner.py:92-144, the body of the inner loop for two entries
\* of prices: the opportunity appended, if any.
Candidate(q1, q2) ==
    LET price_diff_percent == PriceDiffPercent(q1.price, q2.price)
        dir == Direction(q1, q2)
        trade_size == trading.default_trade_size
        expected_profit ==
            CalculateExpectedProfit(trade_size, dir.buy_price, dir.sell_price)
    IN  IF q1.router = q2.router THEN <<>>
        ELSE IF Less(price_diff_percent, trading.min_price_diff) THEN <<>>
        ELSE IF ~(expected_profit > 0) THEN <<>>
        ELSE <<[base_asset |-> "WMATIC",
                buy_router |-> dir.buy_router,
                sell_router |-> dir.sell_router,
                buy_price |-> dir.buy_price, sell_price |-> dir.sell_price,
                price_diff_percent |-> price_diff_percent,
                expected_profit |-> expected_profit,
                trade_size |-> trade_size]>>

RECURSIVE ScanFrom(_, _, _)
ScanFrom(ps, i, j) ==
    IF i > Len(ps) THEN <<>>
    ELSE IF j > Len(ps) THEN ScanFrom(ps, i + 1, i + 2)
    ELSE Candidate(ps[i], ps[j]) \o ScanFrom(ps, i, j + 1)

\* arbitrage_scanner.py:79-146 on the list _get_prices_for_pair returned.
ScanPair(ps) == IF Len(ps) < 2 THEN <<>> ELSE ScanFrom(ps, 1, 2)

\* ----------------------------------------------------------------- start
\* The bot as main.py:77-92 builds it, the scanner's inputs left open.
Constructed ==
    /\ is_running = TRUE
    /\ stopped = FALSE
    /\ now = 0
    /\ trades = <<>>
    /\ outcome = <<>>
    /\ active_trades = <<>>
    /\ trade_history = <<>>
    /\ trades_executed = 0
    /\ trade_alerts = 0
    /\ trades_successful = 0
    /\ protected_txs = 0
    /\ pending_transactions = {}
    /\ scan_todo = 0
    /\ exec_pc = "sleep"
    /\ best_trade = 0
    /\ polls = 0
    /\ success = FALSE
    /\ orders = <<>>
    /\ tx_data = NoTx
    /\ loop_pc = [l \in Loops |-> "start"]
    /\ prices = <<>>
    /\ opportunities = <<>>

\* The scanning loop asleep; what the scanner finds is chosen by ScanLoopWake.
Init ==
    /\ Constructed
    /\ scan_pc = "sleep"
    /\ trading = NoRouters
    /\ answers = <<>>

\* ------------------------------------------------------------- scanning
\* transaction_executor.estimate_gas_cost for the gas price the node
\* answers with: 0 when the read raises.
EstimateGasCost(gas_price) ==
    IF gas_price = RpcError THEN 0 ELSE gas_price * estimated_gas

\* main.py:186
NetProfit(o, gas_cost) == o.expected_profit - gas_cost

RejectedOnGross(o, gas_cost) == o.expected_profit < min_profit

\* main.py:188, the admission threshold.
Rejected(o, gas_cost) == NetProfit(o, gas_cost) < min_profit

\* main.py:195, f"{base_asset}_{int(datetime.now().timestamp())}", at time t.
TradeId(o, t) == <<o.base_asset, t \div TicksPerSecond>>

\* main.py:196-202, with datetime.now() = t.
NewTrade(o, gas_cost, t) ==
    [id |-> TradeId(o, t),
     status |-> "pending",
     created_at |-> t,
     estimated_profit |-> NetProfit(o, gas_cost),
     tx_hash |-> FALSE]

\* ------------------------------------------------------------ protector
Digit(d) == <<"0", "1", "2", "3", "4", "5", "6", "7", "8", "9">>[d + 1]

RECURSIVE Str(_)
\* f"{n}" for an int n >= 0: its decimal digits.
Str(n) == IF n < 10 THEN <<Digit(n)>> ELSE Append(Str(n \div 10), Digit(n % 10))

\* mev_protector.py:70-72 with time.time_ns() = time_ns: the first 8 bytes
\* of the digest of base, quote and time, one number for each such input.
GenerateUniqueNonce(base_asset, time_ns) ==
    time_ns * Cardinality(BaseAssets)
        + (IF base_asset = "WMATIC" THEN 0 ELSE 1)

\* mev_protector.py:37-43 at clock reading t, the fields the digest is made of.
ProtectedOpportunity(o, t) ==
    [base_asset |-> o.base_asset,
     trade_size |-> default_trade_size,
     nonce |-> GenerateUniqueNonce(o.base_asset, t),
     timestamp |-> t \div TicksPerSecond]

\* mev_protector.py:145-151, the string _calculate_tx_hash digests.
CalculateTxHash(po) ==
    <<po.base_asset>> \o Str(po.trade_size) \o Str(po.nonce)
        \o Str(po.timestamp) \o <<executor_address>>

UncappedGasPrice(current_gas) == (6 * current_gas) \div 5

\* mev_protector.py:74-84.  The default absolute maximum, 500 * 10**9 wei,
\* is scaled to max_gas_price_absolute units, and prices count in the same
\* unit.  int(current_gas * 1.2) is the integer part of 6/5 of current_gas:
\* the float product is within one rounding error of 6/5 of current_gas,
\* which moves its integer part for no current_gas below 2**52.
CalculateMaxGasPrice(current_gas) ==
    LET max_gas == (6 * current_gas) \div 5
    IN  IF max_gas < max_gas_price_absolute THEN max_gas
        ELSE max_gas_price_absolute

\* mev_protector.py:117-141 at time.time() = t: the fields of the typed
\* message that the contract checks against the call's parameters.  A
\* signature is modelled by the message it signs.
CreateEip712Signature(po, t) ==
    [nonce |-> po.nonce, deadline |-> t + signature_validity,
     maxGasPrice |-> po.max_gas_price]

\* dict.get(key, default)
Get(d, key, default) == IF key \in DOMAIN d THEN d[key] ELSE default

\* transaction_executor.py:100-133 at time.time() = t with the node
\* answering the gas price reads by gas_price: the nonce, deadline and
\* maxGasPrice of the params tuple (lines 115-117) and the fee fields of the
\* transaction (lines 128-129).
BuildTransaction(opportunity, t, gas_price) ==
    [nonce |-> opportunity.nonce,
     deadline |-> Get(opportunity, "deadline", t + signature_validity),
     maxGasPrice |-> Get(opportunity, "max_gas_price", gas_price * 2),
     maxFeePerGas |-> Get(opportunity, "max_gas_price", gas_price * 2),
     maxPriorityFeePerGas |-> gas_price]

\* mev_protector.py:53-63, after the signature: the order is registered under
\* its hash and counted.
Register(po) ==
    /\ pending_transactions' = pending_transactions \cup {CalculateTxHash(po)}
    /\ protected_txs' = protected_txs + 1

CountedBeforeSigning ==
    /\ protected_txs' = protected_txs + 1
    /\ UNCHANGED pending_transactions

\* mev_protector.py:46-49 raise (the gas price read, the signing): the call
\* ends before lines 53-63.
ProtectRaises == UNCHANGED <<protected_txs, pending_transactions>>

\* The object stored under key k of the table.
DictGet(d, k) == d[CHOOSE i \in 1..Len(d) : d[i].key = k].val

\* active_trades[k] = ... drops the table's reference to the object that was
\* under k; unless the execution loop holds it as best_trade it is garbage.
Replaces(k) ==
    DictHas(active_trades, k) /\ DictGet(active_trades, k) # best_trade

\* The arena has room for a trade of opportunity o created now or later.
Storable(o) ==
    /\ protected_txs < MaxProtected
    /\ \/ Len(trades) < MaxTrades
       \/ \E t \in now..MaxTime : Replaces(TradeId(o, t))

\* The for loop of main.py:167 goes on to the next opportunity of the scan,
\* or the iteration ends in sleep(check_interval).
NextOpportunity(left) ==
    /\ scan_todo' = left
    /\ scan_pc' = IF left = 0 THEN "sleep" ELSE "process"

\* One pass of the scanning loop's while: the running test and the scan.
ScanLoopWake ==
    /\ scan_pc = "sleep"
    /\ Suspended(exec_pc)
    /\ IF ~is_running
       THEN /\ scan_pc' = "done"
            /\ UNCHANGED scan_todo
       ELSE \E found \in 0..MaxOpps : NextOpportunity(found)
    /\ UNCHANGED <<botVars, execVars, envVars,
                   orders, tx_data, loop_pc, scannerVars>>

\* main.py:192-202 at clock reading t: protection succeeded, the trade is
\* stored under its id.
Queue(o, gas_cost, t) ==
    LET k == TradeId(o, t) IN
    /\ now' = t
    /\ Register(ProtectedOpportunity(o, t))
    /\ IF Replaces(k)
       THEN /\ trades' = [trades EXCEPT ![DictGet(active_trades, k)] = NewTrade(o, gas_cost, t)]
            /\ UNCHANGED <<outcome, active_trades>>
       ELSE /\ Len(trades) < MaxTrades
            /\ trades' = Append(trades, NewTrade(o, gas_cost, t))
            /\ outcome' = Append(outcome, "none")
            /\ active_trades' = DictSet(active_trades, k, Len(trades) + 1)

\* _process_opportunity(o), main.py:181-207, with the node answering the
\* gas price read by gas_price: threshold, protection, queueing.  The clock
\* is read here; since its last reading any time may have passed.  A raise
\* of protect_opportunity lands in the except of main.py:206.
Process(o, gas_price) ==
    /\ scan_pc = "process"
    /\ IF Rejected(o, EstimateGasCost(gas_price))
       THEN /\ scan_pc' = "rejected"
            /\ UNCHANGED <<trades, outcome, active_trades, protected_txs,
                           pending_transactions, now, scan_todo>>
       ELSE \E signed \in BOOLEAN :
              IF signed
              THEN /\ Storable(o)
                   /\ \E t \in now..MaxTime :
                         Queue(o, EstimateGasCost(gas_price), t)
                   /\ NextOpportunity(scan_todo - 1)
              ELSE /\ ProtectRaises
                   /\ scan_pc' = "error"
                   /\ UNCHANGED <<trades, outcome, active_trades, now,
                                  scan_todo>>
    /\ UNCHANGED <<trade_history, trades_executed, trade_alerts, trades_successful,
                   execVars, is_running, stopped,
                   orders, tx_data, loop_pc, scannerVars>>

ProcessOpportunity ==
    \E o \in Opportunities, gas_price \in GasPrices : Process(o, gas_price)

\* The return of main.py:189: the opportunity is dropped.
RejectReturn ==
    /\ scan_pc = "rejected"
    /\ NextOpportunity(scan_todo - 1)
    /\ UNCHANGED <<botVars, execVars, envVars,
                   orders, tx_data, loop_pc, scannerVars>>

\* main.py:206-207: the except logs the error and the call returns.
ErrorReturn ==
    /\ scan_pc = "error"
    /\ NextOpportunity(scan_todo - 1)
    /\ UNCHANGED <<botVars, execVars, envVars,
                   orders, tx_data, loop_pc, scannerVars>>

ScanningLoop ==
    ScanLoopWake \/ ProcessOpportunity \/ RejectReturn \/ ErrorReturn

\* ------------------------------------------------------------ execution
SetStatus(t, s) == [trades EXCEPT ![t].status = s]

\* main.py:214-217, the objects of active_trades.values() that are pending.
PendingTrades ==
    SelectSeq(DictValues(active_trades), LAMBDA t : trades[t].status = "pending")

RECURSIVE MaxFrom(_, _, _)
\* Python's max(iterable, key=...): the first element whose key is largest.
MaxFrom(seq, i, best) ==
    IF i > Len(seq) THEN best
    ELSE IF trades[seq[i]].estimated_profit > trades[best].estimated_profit
         THEN MaxFrom(seq, i + 1, seq[i])
         ELSE MaxFrom(seq, i + 1, best)

FirstPending(pending) == pending[1]

\* main.py:221, max(pending_trades, key=lambda x: x['estimated_profit']).
BestTrade(pending) == MaxFrom(pending, 2, pending[1])

IterationWithoutAwait == exec_pc \in {"sleep", "poll_sleep"}

\* main.py:211-228: the loop is back at its while test only after the awaited
\* execute_trade has returned and the iteration's sleep has been entered.
AtIterationStart == exec_pc = "sleep"

\* One pass of the execution loop's while up to the call of execute_trade.
ExecLoopWake ==
    /\ AtIterationStart
    /\ Suspended(scan_pc)
    /\ IF ~is_running
       THEN /\ exec_pc' = "done"
            /\ UNCHANGED <<trades, best_trade, polls>>
       ELSE IF PendingTrades = <<>>
       THEN UNCHANGED <<trades, exec_pc, best_trade, polls>>
       ELSE LET best == BestTrade(PendingTrades) IN
            /\ trades' = SetStatus(best, "executing")
            /\ best_trade' = best
            /\ polls' = 0
            /\ exec_pc' = "submit"
    /\ UNCHANGED <<outcome, active_trades, trade_history, trades_executed, trade_alerts,
                   trades_successful, protected_txs, pending_transactions, success, scanVars,
                   envVars,
                   orders, tx_data, loop_pc, scannerVars>>

ExecSubmitUnchecked ==
    /\ exec_pc = "submit"
    /\ outcome' = [outcome EXCEPT ![best_trade] = "not_sent"]
    /\ exec_pc' = "poll"
    /\ UNCHANGED <<trades, success, active_trades, trade_history,
                   trades_executed, trade_alerts, trades_successful,
                   protected_txs, pending_transactions, best_trade, polls,
                   scanVars, envVars, orders, tx_data, loop_pc, scannerVars>>

\* execute_trade lines 41-60: build, sign and submit the transaction.  A
\* raise in building or signing, or a failed send, returns False with the
\* trade left without tx_hash.
ExecSubmit ==
    /\ exec_pc = "submit"
    /\ \E r \in {"build_raises", "send_raises", "sent"} :
         IF r = "sent"
         THEN /\ trades' = [trades EXCEPT ![best_trade].tx_hash = TRUE]
              /\ exec_pc' = "poll"
              /\ UNCHANGED <<outcome, success>>
         ELSE /\ outcome' = [outcome EXCEPT ![best_trade] = "not_sent"]
              /\ success' = FALSE
              /\ exec_pc' = "returned"
              /\ UNCHANGED trades
    /\ UNCHANGED <<active_trades, trade_history, trades_executed, trade_alerts,
                   trades_successful, protected_txs, pending_transactions, best_trade, polls,
                   scanVars, envVars,
                   orders, tx_data, loop_pc, scannerVars>>

\* execute_trade lines 68-79: the status the executor writes into the trade.
ExecutorStatus(ok) == IF ok THEN "success" ELSE "failed"

\* execute_trade lines 63-94 once _wait_for_execution has returned ok; the
\* callee's locals die with it.
ExecutorReturns(ok, why) ==
    /\ trades' = SetStatus(best_trade, ExecutorStatus(ok))
    /\ outcome' = [outcome EXCEPT ![best_trade] = why]
    /\ success' = ok
    /\ polls' = 0
    /\ exec_pc' = "returned"

\* _wait_for_execution: one get_transaction_receipt inside the while.
ExecPoll ==
    /\ exec_pc = "poll"
    /\ \E r \in {"status1", "status0", "none", "raises"} :
         CASE r = "status1" -> ExecutorReturns(TRUE, "confirmed")
           [] r = "status0" -> ExecutorReturns(FALSE, "reverted")
           [] OTHER -> /\ exec_pc' = "poll_sleep"
                       /\ UNCHANGED <<trades, outcome, success, polls>>
    /\ UNCHANGED <<active_trades, trade_history, trades_executed, trade_alerts,
                   trades_successful, protected_txs, pending_transactions, best_trade, scanVars,
                   envVars,
                   orders, tx_data, loop_pc, scannerVars>>

TimeoutResultTrue == TRUE

\* transaction_executor.py:175-176, what _wait_for_execution returns when the
\* window has passed without a receipt.
TimeoutResult == FALSE

\* _wait_for_execution: asyncio.sleep(0.5) ends and the while test is taken;
\* each pass sleeps, so the window admits MaxPolls passes.
ExecPollWake ==
    /\ exec_pc = "poll_sleep"
    /\ Suspended(scan_pc)
    /\ IF polls + 1 >= MaxPolls
       THEN ExecutorReturns(TimeoutResult, "timed_out")
       ELSE /\ polls' = polls + 1
            /\ exec_pc' = "poll"
            /\ UNCHANGED <<trades, outcome, success>>
    /\ UNCHANGED <<active_trades, trade_history, trades_executed, trade_alerts,
                   trades_successful, protected_txs, pending_transactions, best_trade, scanVars,
                   envVars,
                   orders, tx_data, loop_pc, scannerVars>>

FinalStatusKeepsExecuting(ok) == IF ok THEN "success" ELSE "executing"

FinalStatusAlwaysFailed(ok) == "failed"

\* main.py:231-235, the status the loop writes after execute_trade.
FinalStatus(ok) == IF ok THEN "success" ELSE "failed"

SuccessfulCountsEvery(ok) == trades_successful + 1

\* main.py:231-233: stats['trades_successful'] after the iteration, counted
\* in the success branch only.
SuccessfulAfter(ok) == trades_successful + (IF ok THEN 1 ELSE 0)

\* main.py:231-246: status, history, removal from the table, counters.
ExecFinalize ==
    /\ exec_pc = "returned"
    /\ trades' = SetStatus(best_trade, FinalStatus(success))
    /\ trades_successful' = SuccessfulAfter(success)
    /\ trade_history' = Append(trade_history, best_trade)
    /\ active_trades' = DictDel(active_trades, trades[best_trade].id)
    /\ trades_executed' = trades_executed + 1
    /\ success' = FALSE
    /\ exec_pc' = "alert"
    /\ UNCHANGED <<outcome, trade_alerts, protected_txs, pending_transactions, best_trade, polls, scanVars,
                   envVars,
                   orders, tx_data, loop_pc, scannerVars>>

TradeAlertSkipped == UNCHANGED trade_alerts

\* alerts.py:26-33, one call of send_trade_alert: the message is formatted
\* and handed to the channels, each of which swallows its own failure
\* (alerts.py:100, 128).
SendTradeAlert == trade_alerts' = trade_alerts + 1

\* main.py:249-255: the alert, then sleep(0.1), or sleep(1) if it raised.
\* Delivered or not, the call writes nothing of the bot's.  The iteration's
\* best_trade dies with it.
ExecAlert ==
    /\ exec_pc = "alert"
    /\ SendTradeAlert
    /\ exec_pc' = "sleep"
    /\ best_trade' = 0
    /\ UNCHANGED <<trades, outcome, active_trades, trade_history,
                   trades_executed, trades_successful, protected_txs,
                   pending_transactions, polls, success, scanVars, envVars,
                   orders, tx_data, loop_pc, scannerVars>>

ExecutionLoop ==
    ExecLoopWake \/ ExecSubmit \/ ExecPoll \/ ExecPollWake \/ ExecFinalize
        \/ ExecAlert

\* ------------------------------------------- monitoring and health check
LoopsAtRest == Suspended(scan_pc) /\ Suspended(exec_pc)

\* _run_monitoring_loop: reads stats and the tables, writes none of them.
MonitoringLoop ==
    /\ is_running
    /\ LoopsAtRest
    /\ UNCHANGED vars

\* _run_health_check_loop: reads the connections, writes no trade state.
HealthCheckLoop ==
    /\ is_running
    /\ LoopsAtRest
    /\ UNCHANGED vars

\* ---------------------------------------------------------- environment
\* _handle_shutdown: the signal handler clears the running flag.
HandleShutdown ==
    /\ is_running
    /\ is_running' = FALSE
    /\ UNCHANGED <<stopped, now, botVars, scanVars, execVars,
                   orders, tx_data, loop_pc, scannerVars>>

StopAtOnce ==
    /\ ~is_running
    /\ ~stopped
    /\ stopped' = TRUE
    /\ UNCHANGED <<is_running, now, botVars, scanVars, execVars,
                   orders, tx_data, loop_pc, scannerVars>>

\* start()'s finally: stop() runs once gather has seen the loops end.
Stop ==
    /\ scan_pc = "done" /\ exec_pc = "done"
    /\ ~stopped
    /\ stopped' = TRUE
    /\ UNCHANGED <<is_running, now, botVars, scanVars, execVars,
                   orders, tx_data, loop_pc, scannerVars>>

Next ==
    \/ ScanLoopWake
    \/ ProcessOpportunity
    \/ RejectReturn
    \/ ErrorReturn
    \/ ExecLoopWake
    \/ ExecSubmit
    \/ ExecPoll
    \/ ExecPollWake
    \/ ExecFinalize
    \/ ExecAlert
    \/ MonitoringLoop
    \/ HealthCheckLoop
    \/ HandleShutdown
    \/ Stop

Spec == Init /\ [][Next]_vars

\* A coroutine that runs goes on to its next sleep, and asyncio runs every
\* ready coroutine in turn, so a loop that is ready again and again gets to
\* run.
FairSpec ==
    /\ Spec
    /\ SF_vars(ExecutionLoop)
    /\ WF_vars(ProcessOpportunity \/ RejectReturn \/ ErrorReturn)

TypeOK ==
    /\ is_running \in BOOLEAN
    /\ now \in 0..MaxTime
    /\ Len(trades) <= MaxTrades
    /\ Len(outcome) = Len(trades)
    /\ exec_pc \in {"sleep", "submit", "poll", "poll_sleep", "returned",
                    "alert", "done"}
    /\ scan_pc \in {"sleep", "process", "rejected", "error", "done"}
    /\ protected_txs \in 0..MaxProtected
    /\ best_trade \in 0..Len(trades)

\* ------------------------------------------- protect_opportunity alone
\* protect_opportunity is a public method: it takes the opportunity it is
\* given, whatever its trade_size, and stamps it with a nonce (8 bytes of a
\* digest) and int(time.time()).
TradeSizes == {1, 11}

\* mev_protector.py:35-65 called with an opportunity of the given asset and
\* size, the nonce and the clock coming out as given.
Protect(base_asset, trade_size, nonce, timestamp, gas_price, signed) ==
    LET po == [base_asset |-> base_asset, trade_size |-> trade_size,
               nonce |-> nonce, timestamp |-> timestamp,
               max_gas_price |-> CalculateMaxGasPrice(gas_price)]
    IN  IF gas_price # RpcError /\ signed
        THEN /\ Register(po)
             /\ orders' = Append(orders,
                    [base_asset |-> base_asset, trade_size |-> trade_size,
                     nonce |-> nonce, timestamp |-> timestamp,
                     gas_price |-> gas_price,
                     max_gas_price |-> po.max_gas_price,
                     signature |-> CreateEip712Signature(po, timestamp),
                     tx_hash |-> CalculateTxHash(po)])
        ELSE /\ ProtectRaises
             /\ UNCHANGED orders

ProtectOpportunity ==
    /\ Len(orders) < MaxOrders
    /\ \E base_asset \in BaseAssets, trade_size \in TradeSizes,
          nonce \in 0..MaxNonce, timestamp \in 0..MaxTimestamp,
          gas_price \in GasPrices, signed \in BOOLEAN :
            Protect(base_asset, trade_size, nonce, timestamp, gas_price,
                    signed)
    /\ UNCHANGED <<trades, outcome, active_trades, trade_history,
                   trades_executed, trade_alerts, trades_successful, scanVars, execVars,
                   envVars, tx_data, loop_pc, scannerVars>>

ProtectorSpec == Init /\ [][ProtectOpportunity]_vars

\* ------------------------------------------- one order, signed and built
\* protect_opportunity for one opportunity, the node answering the gas price
\* read with any reading.
SignOrder ==
    /\ orders = <<>>
    /\ \E nonce \in 0..MaxNonce, timestamp \in 0..MaxTimestamp,
          gas_price \in GasPriceReadings \cup {RpcError}, signed \in BOOLEAN :
            Protect("WMATIC", default_trade_size, nonce, timestamp, gas_price,
                    signed)
    /\ UNCHANGED <<trades, outcome, active_trades, trade_history,
                   trades_executed, trade_alerts, trades_successful,
                   scanVars, execVars, envVars, tx_data, loop_pc, scannerVars>>

\* execute_trade builds the transaction of the order (transaction_executor
\* .py:42-45) once the execution loop has picked its trade, which is at the
\* time it was signed or later.
BuildOrder ==
    /\ orders # <<>>
    /\ tx_data = NoTx
    /\ \E t \in orders[1].timestamp..MaxTimestamp,
          gas_price \in GasPriceReadings :
            tx_data' = BuildTransaction(orders[1], t, gas_price)
    /\ UNCHANGED <<botVars, scanVars, execVars, envVars, orders, loop_pc,
                   scannerVars>>

OrderSpec == Init /\ [][SignOrder \/ BuildOrder]_vars

\* ------------------------------------------- one order, waiting in pending
\* The clock of this part reads in seconds.
\* What one execute_trade can last: up to a receipt after a minute, or the
\* whole window of _wait_for_execution.
ExecutionSeconds == {60, confirmation_timeout}

\* _process_opportunity admits one trade: its order is signed at the clock
\* reading timestamp.
AdmitOrder ==
    /\ orders = <<>>
    /\ \E nonce \in 0..MaxNonce, timestamp \in now..MaxTimestamp,
          gas_price \in GasPrices, signed \in BOOLEAN :
            /\ Protect("WMATIC", default_trade_size, nonce, timestamp,
                       gas_price, signed)
            /\ now' = timestamp
    /\ UNCHANGED <<is_running, stopped, trades, outcome, active_trades,
                   trade_history, trades_executed, trade_alerts,
                   trades_successful, scanVars, execVars, tx_data, loop_pc,
                   scannerVars>>

\* main.py:221-228 picks another pending trade, one of higher
\* estimated_profit, and awaits execute_trade on it: the order stays pending
\* for as long as that call lasts.  Of the other trade only the time it
\* takes is kept.
WaitInPending ==
    /\ orders # <<>>
    /\ tx_data = NoTx
    /\ \E seconds \in ExecutionSeconds :
          /\ now + seconds <= MaxClock
          /\ now' = now + seconds
    /\ UNCHANGED <<is_running, stopped, botVars, scanVars, execVars, orders,
                   tx_data, loop_pc, scannerVars>>

\* main.py:221-228 picks the trade of the order and execute_trade builds,
\* signs and sends its transaction (transaction_executor.py:41-54) at the
\* clock reading now; no statement on the way reads the order's timestamp
\* or the clock against it.
SubmitOrder ==
    /\ orders # <<>>
    /\ tx_data = NoTx
    /\ \E gas_price \in GasPriceReadings :
          tx_data' = BuildTransaction(orders[1], now, gas_price)
    /\ UNCHANGED <<is_running, stopped, now, botVars, scanVars, execVars,
                   orders, loop_pc, scannerVars>>

WaitSpec == Init /\ [][AdmitOrder \/ WaitInPending \/ SubmitOrder]_vars

\* ------------------------------------------- admissions without end
\* A run in which the scanning loop admits trades for ever.  The selection
\* of main.py:214-221 reads the table alone, so of a finalized trade nothing
\* is kept in this part: neither its object nor its history entry nor its
\* share of the counters, and the protector's registry is left out.  The
\* states of such a run then recur.  The clock stands still; a key is free
\* again once its trade has been finalized.

\* One iteration of the scanning loop that admits one opportunity, net of
\* the gas cost above the threshold, under a key the table does not hold.
AdmitTrade ==
    /\ scan_pc = "sleep"
    /\ Suspended(exec_pc)
    /\ Len(trades) < MaxTrades
    /\ \E o \in Opportunities, gas_price \in GasPrices :
          /\ ~Rejected(o, EstimateGasCost(gas_price))
          /\ ~DictHas(active_trades, TradeId(o, now))
          /\ trades' = Append(trades,
                            NewTrade(o, EstimateGasCost(gas_price), now))
          /\ outcome' = Append(outcome, "none")
          /\ active_trades' =
                 DictSet(active_trades, TradeId(o, now), Len(trades) + 1)
    /\ UNCHANGED <<trade_history, trades_executed, trade_alerts,
                   trades_successful, protected_txs, pending_transactions,
                   scanVars, execVars, envVars, orders, tx_data, loop_pc,
                   scannerVars>>

\* The objects left once object t is gone.
Without(seq, t) == [i \in 1..(Len(seq) - 1) |-> IF i < t THEN seq[i] ELSE seq[i + 1]]

\* main.py:231-251 for the trade executed: it leaves the table, and the
\* objects after it move up by one.
FinalizeAndForget ==
    /\ exec_pc = "returned"
    /\ trades' = Without(trades, best_trade)
    /\ outcome' = Without(outcome, best_trade)
    /\ active_trades' =
           LET left == DictDel(active_trades, trades[best_trade].id)
           IN  [i \in 1..Len(left) |->
                   [key |-> left[i].key,
                    val |-> IF left[i].val > best_trade THEN left[i].val - 1
                            ELSE left[i].val]]
    /\ success' = FALSE
    /\ polls' = 0
    /\ best_trade' = 0
    /\ exec_pc' = "sleep"
    /\ UNCHANGED <<trade_history, trades_executed, trade_alerts,
                   trades_successful, protected_txs, pending_transactions,
                   scanVars, envVars, orders, tx_data, loop_pc, scannerVars>>

ExecutionOfStarveSpec ==
    ExecLoopWake \/ ExecSubmit \/ ExecPoll \/ ExecPollWake
        \/ FinalizeAndForget

StarveSpec ==
    /\ Init
    /\ [][AdmitTrade \/ ExecutionOfStarveSpec]_vars
    /\ WF_vars(ExecutionOfStarveSpec)

\* ------------------------------------------------- the loops' control flow
\* The four loops of main.py:152-311 share one shape:
\*     while self.is_running:
\*         try:    <body>; await asyncio.sleep(interval)
\*         except Exception: logger.error(...); await asyncio.sleep(backoff)
\* A loop is at "start" when gather has just scheduled it, in "body" between
\* the while test and the iteration's sleep, in "sleep" or "backoff" while
\* that sleep lasts and "done" once the while test has failed.
Waiting(l) == loop_pc[l] \in {"start", "sleep", "backoff"}

\* The while test of loop l.
LoopTest(l) ==
    /\ Waiting(l)
    /\ loop_pc' = [loop_pc EXCEPT ![l] = IF is_running THEN "body" ELSE "done"]
    /\ UNCHANGED is_running

\* The body of loop l runs to its end and the iteration's sleep is entered.
BodyCompletes(l) ==
    /\ loop_pc[l] = "body"
    /\ loop_pc' = [loop_pc EXCEPT ![l] = "sleep"]
    /\ UNCHANGED is_running

RaiseEscapes(l) ==
    /\ loop_pc[l] = "body"
    /\ loop_pc' = [loop_pc EXCEPT ![l] = "done"]
    /\ UNCHANGED is_running

\* A statement of the body of loop l raises an Exception: the except of the
\* try that encloses the whole body logs it and enters the backoff sleep.
BodyRaises(l) ==
    /\ loop_pc[l] = "body"
    /\ loop_pc' = [loop_pc EXCEPT ![l] = "backoff"]
    /\ UNCHANGED is_running

\* _handle_shutdown while the loops run.
ShutdownSignal ==
    /\ is_running
    /\ is_running' = FALSE
    /\ UNCHANGED loop_pc

LoopStep ==
    \E l \in Loops : LoopTest(l) \/ BodyCompletes(l) \/ BodyRaises(l)

LoopSpec ==
    Init /\ [][(LoopStep \/ ShutdownSignal)
                  /\ UNCHANGED <<stopped, now, botVars, scanVars, execVars,
                                 orders, tx_data, scannerVars>>]_vars

\* ------------------------------------------------------------ a long run
\* The opportunity every scan of the long run returns.
SteadyOpportunity ==
    [base_asset |-> "WMATIC", expected_profit |-> 2 * estimated_gas]

\* main.py:181-202 followed by main.py:214-246 with both loops asleep
\* before and after: the opportunity is admitted at the clock's last
\* reading (the gas price read raising, cost 0), picked by the execution
\* loop, confirmed by the network, and moved from the table to the history.
TradeCycle ==
    /\ Len(trade_history) < MaxFinalized
    /\ is_running
    /\ scan_pc = "sleep"
    /\ exec_pc = "sleep"
    /\ active_trades = <<>>
    /\ Register(ProtectedOpportunity(SteadyOpportunity, now))
    /\ trades' = Append(trades,
           [NewTrade(SteadyOpportunity, EstimateGasCost(RpcError), now)
                EXCEPT !.status = FinalStatus(TRUE), !.tx_hash = TRUE])
    /\ outcome' = Append(outcome, "confirmed")
    /\ trade_history' = Append(trade_history, Len(trades) + 1)
    /\ trades_executed' = trades_executed + 1
    /\ trades_successful' = trades_successful + 1
    /\ SendTradeAlert
    /\ UNCHANGED <<active_trades, scanVars, execVars, envVars, orders, tx_data,
                   loop_pc,
                   scannerVars>>

HistorySpec == Init /\ [][TradeCycle]_vars

\* ------------------------------------------------------ the scanner alone
\* The scanning loop is in scan_opportunities (main.py:159) with a
\* configuration and routers that answer as given.
ScanInit ==
    /\ Constructed
    /\ scan_pc = "scan"
    /\ trading \in TradingConfigs
    /\ answers \in [Routers -> Answers]

\* main.py:159 and arbitrage_scanner.py:38-73 for the one pair: the prices
\* are fetched, the pair is scanned, the loop turns to what was found.
ScanOpportunities ==
    /\ scan_pc = "scan"
    /\ prices' = GetPricesForPair(trading.enabled_routers)
    /\ opportunities' = ScanPair(prices')
    /\ NextOpportunity(Len(opportunities'))
    /\ UNCHANGED <<botVars, execVars, envVars, orders, tx_data, loop_pc, trading,
                   answers>>

ScanSpec == ScanInit /\ [][ScanOpportunities]_vars

\* ------------------------------------------------------------- properties
Trades == 1..Len(trades)

Executing == {t \in Trades : trades[t].status = "executing"}

InTable(t) == \E i \in 1..Len(active_trades) : active_trades[i].val = t

InHistory(t) == \E i \in 1..Len(trade_history) : trade_history[i] = t

\* C1: in every reachable state at most one trade has status 'executing'.
C1_SingleFlight == Cardinality(Executing) <= 1

\* A trade is being polled while another one waits pending in the table.
C1_Witness ==
    /\ exec_pc = "poll_sleep"
    /\ trades[best_trade].status = "executing"
    /\ \E u \in Trades : InTable(u) /\ trades[u].status = "pending"

\* The execution loop selects a trade in this step.
SelectStep == exec_pc = "sleep" /\ exec_pc' = "submit"

\* The execution loop hands a transaction to send_raw_transaction in this step.
SubmitStep == exec_pc = "submit" /\ exec_pc' # "submit"

\* C2: while a trade that was marked executing has no terminal status, no
\* other trade is selected and no transaction of another trade is submitted.
C2_Serialized ==
    [][\A t \in Trades :
          trades[t].status = "executing" =>
             /\ ~SelectStep
             /\ SubmitStep => best_trade = t
             /\ \A u \in 1..Len(trades') \ {t} :
                   trades'[u].status # "executing"
             /\ \A u \in Trades \ {t} : trades'[u].tx_hash = trades[u].tx_hash]_vars

\* A second trade is selected after the first one reached a terminal status.
C2_Witness ==
    /\ exec_pc = "poll"
    /\ trades[best_trade].tx_hash
    /\ \E u \in Trades : u # best_trade /\ trades[u].tx_hash /\ Terminal(trades[u].status)

\* C3: once a trade's status is terminal it never changes again.
C3_TerminalAbsorbing ==
    [][\A t \in Trades :
          Terminal(trades[t].status) => trades'[t].status = trades[t].status]_vars

\* A trade is finalized and the loops have gone on to run another trade.
C3_Witness ==
    /\ \E t \in Trades : InHistory(t) /\ trades[t].status = "success"
    /\ exec_pc = "poll_sleep"
    /\ trades[best_trade].status = "executing"

LegalStep(a, b) ==
    \/ a = b
    \/ a = "pending" /\ b = "executing"
    \/ a = "executing" /\ Terminal(b)

\* Status of the record stored under key k of table d, given the arena tr.
StatusUnder(d, tr, k) == tr[DictGet(d, k)].status

\* C4: every status change of a trade, and of the record stored under a
\* trade id in the active table, is pending -> executing -> terminal.
C4_Monotonic ==
    [][/\ \A t \in Trades : LegalStep(trades[t].status, trades'[t].status)
       /\ \A i \in 1..Len(active_trades) :
             LET k == active_trades[i].key IN
             DictHas(active_trades', k) =>
                LegalStep(StatusUnder(active_trades, trades, k),
                          StatusUnder(active_trades', trades', k))]_vars

\* C5: no two admitted trades have the same id: every admission creates a
\* trade whose id no trade created before it has.
C5_UniqueIds ==
    [][protected_txs' # protected_txs =>
         /\ Len(trades') = Len(trades) + 1
         /\ \A u \in Trades : trades[u].id # trades'[Len(trades')].id]_vars

\* C6: the trade just marked executing has an estimated_profit no smaller
\* than that of any trade pending in the active table.
C6_MaxProfit ==
    exec_pc = "submit" =>
        \A u \in Trades :
            (InTable(u) /\ trades[u].status = "pending") =>
                trades[best_trade].estimated_profit >= trades[u].estimated_profit

\* A trade is selected over a pending one of smaller profit that comes
\* before it in the table.
C6_Witness ==
    /\ exec_pc = "submit"
    /\ \E i, j \in 1..Len(active_trades) :
          /\ i < j
          /\ active_trades[j].val = best_trade
          /\ trades[active_trades[i].val].status = "pending"
          /\ trades[active_trades[i].val].estimated_profit
                < trades[best_trade].estimated_profit

\* C7: among the pending trades of maximal estimated_profit the one selected
\* has the earliest created_at.
C7_TieBreak ==
    exec_pc = "submit" =>
        \A u \in Trades :
            (/\ InTable(u) /\ trades[u].status = "pending"
             /\ trades[u].estimated_profit = trades[best_trade].estimated_profit)
            => trades[best_trade].created_at <= trades[u].created_at

\* What the stored trade shows of its execution.
Recorded(t) == <<trades[t].status, trades[t].tx_hash>>

Finalized(t) ==
    /\ Terminal(trades[t].status)
    /\ ~InTable(t)
    /\ Cardinality({i \in 1..Len(trade_history) : trade_history[i] = t}) = 1

\* C9: every trade marked executing eventually has a terminal status, is out
\* of the active table and is in the trade history.
C9_EventuallyFinalized ==
    \A t \in 1..MaxTrades :
        (t \in Trades /\ trades[t].status = "executing") ~> (t \in Trades /\ Finalized(t))

\* A trade was finalized after its polling ran into the timeout.
C9_Witness ==
    \E t \in Trades : Finalized(t) /\ outcome[t] = "timed_out"

\* C10: an opportunity whose net profit is below min_profit is dropped with
\* no protector call and no change of the active table, so every trade in
\* the active table has estimated_profit >= min_profit.
C10_AdmissionThreshold ==
    /\ [](\A i \in 1..Len(active_trades) :
             trades[active_trades[i].val].estimated_profit >= min_profit)
    /\ [][\A o \in Opportunities, gas_price \in GasPrices :
            (/\ Process(o, gas_price)
             /\ o.expected_profit - EstimateGasCost(gas_price) < min_profit)
            => /\ scan_pc' = "rejected"
               /\ UNCHANGED <<active_trades, trades, protected_txs, pending_transactions>>]_vars

\* An opportunity was dropped at the threshold while a trade is in the table.
C10_Witness ==
    /\ scan_pc = "rejected"
    /\ active_trades # <<>>

\* C11: when protect_opportunity raises, the active table, the protector's
\* pending transactions and its protected_txs counter are left as they were,
\* and the scanning loop goes on to the next opportunity of the scan.
C11_ProtectionFailure ==
    /\ [][(scan_pc = "process" /\ scan_pc' = "error") =>
            UNCHANGED <<active_trades, trades, pending_transactions,
                        protected_txs>>]_vars
    /\ [][(scan_pc = "error" /\ scan_pc' # "error") =>
            /\ scan_todo' = scan_todo - 1
            /\ scan_pc' = IF scan_todo' = 0 THEN "sleep" ELSE "process"
            /\ UNCHANGED <<active_trades, trades, pending_transactions,
                           protected_txs>>]_vars

\* Protection failed for an opportunity that is not the last of its scan,
\* while a trade protected earlier is in the table.
C11_Witness ==
    /\ scan_pc = "error"
    /\ scan_todo > 1
    /\ active_trades # <<>>
    /\ protected_txs > 0

\* C12: no two orders returned by protect_opportunity carry the same replay
\* hash: a call never registers a hash that is already registered.
C12_NoHashReuse ==
    [][protected_txs' # protected_txs =>
         Cardinality(pending_transactions')
             = Cardinality(pending_transactions) + 1]_vars

\* C13: two orders for the same asset that differ in trade_size, nonce or
\* timestamp carry different replay hashes.
C13_Injective ==
    \A i, j \in 1..Len(orders) :
        (/\ orders[i].base_asset = orders[j].base_asset
         /\ <<orders[i].trade_size, orders[i].nonce, orders[i].timestamp>>
              # <<orders[j].trade_size, orders[j].nonce, orders[j].timestamp>>)
        => orders[i].tx_hash # orders[j].tx_hash

\* C14: trade_history never holds more than history_capacity entries.
C14_HistoryBounded == Len(trade_history) <= history_capacity

\* scan_opportunities has returned.
ScanDone == scan_pc # "scan"

\* C15: a router whose getAmountsOut call raised has no entry in the list
\* of prices and is named by no opportunity.
C15_FailedRouterExcluded ==
    ScanDone =>
        /\ \A i \in 1..Len(prices) : ~answers[prices[i].router].raises
        /\ \A i \in 1..Len(opportunities) :
              /\ ~answers[opportunities[i].buy_router].raises
              /\ ~answers[opportunities[i].sell_router].raises

\* Exact arithmetic on the fractions the floats stand for.
Mul(x, y) == Rat(x.n * y.n, x.d * y.d)
Div(x, y) == Rat(x.n * y.d, x.d * y.n)
Sub(x, y) == Rat(x.n * y.d - y.n * x.d, x.d * y.d)
LessEq(x, y) == x.n * y.d <= y.n * x.d

\* sell_price * (1 - fee) <= buy_price
SellsAtLoss(buy_price, sell_price) ==
    LessEq(Mul(sell_price, Sub(One, trading.dex_fee_percent)), buy_price)

\* C16: every opportunity returned has expected_profit > 0, and none is
\* returned for prices with sell_price * (1 - fee) <= buy_price.
C16_NoLossEmitted ==
    ScanDone =>
        \A i \in 1..Len(opportunities) :
            /\ opportunities[i].expected_profit > 0
            /\ ~SellsAtLoss(opportunities[i].buy_price,
                            opportunities[i].sell_price)

\* |p1 - p2| / min(p1, p2), exactly.
RelativeDifference(p1, p2) ==
    Div(FAbs(Sub(p1, p2)), IF LessEq(p1, p2) THEN p1 ELSE p2)

\* An opportunity of the scan trades between the routers of quotes q1, q2.
Emitted(q1, q2) ==
    \E i \in 1..Len(opportunities) :
        {opportunities[i].buy_router, opportunities[i].sell_router}
            = {q1.router, q2.router}

\* C17: no opportunity is returned for two quotes whose relative difference
\* is below min_price_diff, and none when fewer than two quotes are valid.
C17_ThresholdFilter ==
    ScanDone =>
        /\ Len(prices) < 2 => opportunities = <<>>
        /\ \A i, j \in 1..Len(prices) :
              (/\ i < j
               /\ Less(RelativeDifference(prices[i].price, prices[j].price),
                       trading.min_price_diff))
              => ~Emitted(prices[i], prices[j])

\* The list of prices holds the given price for the given router.
Quoted(router, price) ==
    \E j \in 1..Len(prices) : prices[j] = [router |-> router, price |-> price]

ProfitFormula(trade_size, buy_price, sell_price) ==
    Sub(Mul(Div(Mul(Rat(trade_size, 1), sell_price), buy_price),
            Sub(One, trading.dex_fee_percent)),
        Rat(trade_size, 1))

\* C19: two quotes yield at most one opportunity, and its expected_profit is
\* the value of the profit formula for its trade size and prices, as a whole
\* number of wei.
C19_ProfitFormula ==
    ScanDone =>
        /\ Len(prices) = 2 => Len(opportunities) <= 1
        /\ \A i \in 1..Len(opportunities) :
              LET o == opportunities[i] IN
              o.expected_profit
                  = Truncate(Mul(ProfitFormula(o.trade_size, o.buy_price,
                                               o.sell_price),
                                 Rat(WeiPerToken, 1)))

\* C20: for two routers quoting distinct prices, the scan of the list
\* enumerated the other way round computes the same price_diff_percent and
\* returns the same opportunities.
C20_Symmetry ==
    (/\ ScanDone
     /\ Len(prices) = 2
     /\ prices[1].router # prices[2].router
     /\ prices[1].price # prices[2].price)
    => /\ PriceDiffPercent(prices[1].price, prices[2].price)
            = PriceDiffPercent(prices[2].price, prices[1].price)
       /\ opportunities = ScanPair(<<prices[2], prices[1]>>)

\* Two routers with distinct prices, an opportunity returned.
C20_Witness ==
    /\ ScanDone
    /\ Len(prices) = 2
    /\ prices[1].price # prices[2].price
    /\ Less(prices[2].price, prices[1].price)
    /\ opportunities # <<>>

\* C21: once the running flag is cleared no trade is newly marked executing
\* and no scan is begun, and stop() saves the state only after the execution
\* loop has ended: no trade is executing then, and every trade that was taken
\* up has its terminal status and is in the history.
C21_ShutdownDrains ==
    /\ [](stopped =>
            /\ exec_pc = "done"
            /\ \A t \in Trades :
                  \/ trades[t].status = "pending"
                  \/ Terminal(trades[t].status) /\ InHistory(t))
    /\ [][~is_running =>
            /\ \A t \in 1..Len(trades') :
                  trades'[t].status = "executing" =>
                      t \in Trades /\ trades[t].status = "executing"
            /\ ~(scan_pc = "sleep" /\ scan_pc' = "process")]_vars

\* The flag is cleared and the scanning loop has ended while the execution
\* loop is still polling for the receipt of the trade in flight.
C21_Witness ==
    /\ ~is_running
    /\ scan_pc = "done"
    /\ exec_pc = "poll_sleep"
    /\ trades[best_trade].status = "executing"

\* C22: wherever the execution loop is suspended, so that another loop can
\* run, every trade in the active table is pending or executing, and every
\* trade in the history has a terminal status and is not in the table.
C22_AtomicTransitions ==
    Suspended(exec_pc) =>
        /\ \A i \in 1..Len(active_trades) :
              trades[active_trades[i].val].status \in {"pending", "executing"}
        /\ \A i \in 1..Len(trade_history) :
              /\ Terminal(trades[trade_history[i]].status)
              /\ ~InTable(trade_history[i])

\* The scanning loop runs while the execution loop sleeps between two polls
\* of a trade, an earlier trade being in the history.
C22_Witness ==
    /\ exec_pc = "poll_sleep"
    /\ scan_pc = "process"
    /\ trades[best_trade].status = "executing"
    /\ InTable(best_trade)
    /\ trade_history # <<>>

\* The execution loop is inside execute_trade.
InExecuteTrade == exec_pc \in {"submit", "poll", "poll_sleep"}

\* C23: execute_trade leaves the trade record it was given as it was.
C23_ExecutorReadsOnly ==
    [][InExecuteTrade => trades'[best_trade] = trades[best_trade]]_vars

\* _process_opportunity stores a trade in this step.
AdmitStep == protected_txs' # protected_txs

\* The execution loop moves its trade to the history in this step.
FinalizeStep == exec_pc = "returned" /\ exec_pc' = "alert"

\* C24: an admission while a trade is executing appends one pending entry
\* and leaves every entry of the table, and the trade it holds, as it was;
\* the finalization of the executing trade leaves the pending entries in
\* the table.
C24_AdmissionOnlyAdds ==
    /\ [][(AdmitStep /\ Executing # {}) =>
            /\ Len(active_trades') = Len(active_trades) + 1
            /\ \A i \in 1..Len(active_trades) :
                  /\ active_trades'[i] = active_trades[i]
                  /\ trades'[active_trades[i].val]
                         = trades[active_trades[i].val]
            /\ trades'[active_trades'[Len(active_trades')].val].status
                   = "pending"]_vars
    /\ [][FinalizeStep =>
            \A i \in 1..Len(active_trades) :
                trades[active_trades[i].val].status = "pending" =>
                    \E j \in 1..Len(active_trades') :
                        active_trades'[j] = active_trades[i]]_vars

\* C25: send_trade_alert has been called once for every trade in the
\* history but the one the execution loop has just moved there, for which
\* it is called next; that trade then has its terminal status and is out of
\* the table, and the call leaves trades, table and history as they are.
C25_OneAlertPerTrade ==
    /\ [](trade_alerts
            = Len(trade_history) - (IF exec_pc = "alert" THEN 1 ELSE 0))
    /\ [](exec_pc = "alert" =>
            /\ trade_history[Len(trade_history)] = best_trade
            /\ Finalized(best_trade))
    /\ [][trade_alerts' # trade_alerts =>
            /\ exec_pc = "alert"
            /\ trade_alerts' = trade_alerts + 1
            /\ UNCHANGED <<trades, active_trades, trade_history>>]_vars

\* The alert for a second finalized trade is about to be sent.
C25_Witness ==
    /\ exec_pc = "alert"
    /\ trade_alerts = 1
    /\ trades[best_trade].status = "failed"

\* C26: the max_gas_price of an order is at most the absolute maximum and at
\* most 1.2 times the gas price read, and is the absolute maximum or less
\* than one below 1.2 times the gas price read.
C26_GasCeiling ==
    \A i \in 1..Len(orders) :
        LET o == orders[i] IN
        /\ o.max_gas_price <= max_gas_price_absolute
        /\ 5 * o.max_gas_price <= 6 * o.gas_price
        /\ \/ o.max_gas_price = max_gas_price_absolute
           \/ 6 * o.gas_price < 5 * (o.max_gas_price + 1)

\* An order signed while the gas price was above the absolute maximum.
C26_Witness ==
    /\ orders # <<>>
    /\ orders[1].gas_price > max_gas_price_absolute
    /\ orders[1].max_gas_price = max_gas_price_absolute

\* C27: a trade whose submission failed has no transaction hash and is never
\* submitted again or polled for: execute_trade returns failure from the
\* submission itself, and the loop records the trade as failed in the
\* history.
C27_SubmissionFailure ==
    /\ [](\A t \in Trades : outcome[t] = "not_sent" =>
            /\ ~trades[t].tx_hash
            /\ \/ /\ t = best_trade
                  /\ exec_pc = "returned"
                  /\ ~success
                  /\ trades[t].status = "executing"
               \/ /\ trades[t].status = "failed"
                  /\ InHistory(t))
    /\ [][\A t \in Trades :
            outcome[t] # "not_sent" /\ t \in 1..Len(trades')
                /\ outcome'[t] = "not_sent" =>
                    /\ exec_pc = "submit" /\ exec_pc' = "returned"
                    /\ t = best_trade
                    /\ polls' = 0]_vars

\* The failed submission is in the history as failed, without a hash.
C27_Witness ==
    \E i \in 1..Len(trade_history) :
        /\ outcome[trade_history[i]] = "not_sent"
        /\ trades[trade_history[i]].status = "failed"
        /\ ~trades[trade_history[i]].tx_hash

\* C28: an exception raised in the body of a loop is followed by the backoff
\* wait of that loop, after which the loop tests the running flag and starts
\* another iteration if it is set; a loop ends only with the flag cleared.
C28_LoopsSurviveErrors ==
    /\ [](\A l \in Loops : loop_pc[l] = "done" => ~is_running)
    /\ [][\A l \in Loops :
            /\ loop_pc[l] = "body" /\ loop_pc'[l] # "body" =>
                   loop_pc'[l] \in {"sleep", "backoff"}
            /\ loop_pc[l] = "backoff" /\ loop_pc'[l] # "backoff" =>
                   loop_pc'[l] = IF is_running THEN "body" ELSE "done"]_vars

\* Every loop has caught an exception and the bot is still running.
C28_Witness ==
    /\ is_running
    /\ \A l \in Loops : loop_pc[l] = "backoff"

\* C29: the nonce, deadline and gas ceiling of a built transaction equal the
\* nonce, deadline and maxGasPrice of the typed message signed for its order.
C29_BuiltFromSignedFields ==
    tx_data # NoTx =>
        /\ tx_data.nonce = orders[1].signature.nonce
        /\ tx_data.deadline = orders[1].signature.deadline
        /\ tx_data.maxGasPrice = orders[1].signature.maxGasPrice

\* The part of C29 that the code keeps: nonce and gas ceiling are the signed
\* ones, and the deadline of the call is never before the signed one.
C29_NonceAndCeilingSigned ==
    tx_data # NoTx =>
        /\ tx_data.nonce = orders[1].signature.nonce
        /\ tx_data.maxGasPrice = orders[1].signature.maxGasPrice
        /\ tx_data.deadline >= orders[1].signature.deadline

TimesInTable(t) ==
    Cardinality({i \in 1..Len(active_trades) : active_trades[i].val = t})

TimesInHistory(t) ==
    Cardinality({i \in 1..Len(trade_history) : trade_history[i] = t})

\* C30: every trade inserted into the table is in the table or in the
\* history, once; an admission displaces no trade, and a trade leaves the
\* table only when the execution loop finalizes it.
C30_NoTradeLost ==
    /\ [](\A t \in Trades : TimesInTable(t) + TimesInHistory(t) = 1)
    /\ [][AdmitStep => Len(trades') = Len(trades) + 1]_vars
    /\ [][\A t \in Trades :
            InTable(t) /\ ~(\E i \in 1..Len(active_trades') :
                                active_trades'[i].val = t) =>
                FinalizeStep /\ t = best_trade]_vars

\* The trade that left the table without having been finalized.
C30_Lost ==
    \E t \in Trades :
        /\ trades[t].status = "pending"
        /\ ~InTable(t)
        /\ ~InHistory(t)

SuccessesInHistory ==
    Cardinality({i \in 1..Len(trade_history) :
                    trades[trade_history[i]].status = "success"})

\* C31: in every state, those in which another loop runs included,
\* trades_executed is the number of trades appended to the history,
\* trades_successful the number of those whose status is success, and
\* trades_successful is at most trades_executed.
C31_CountersConsistent ==
    /\ trades_executed = Len(trade_history)
    /\ trades_successful = SuccessesInHistory
    /\ trades_successful <= trades_executed

\* One success and one failure have been finalized and the scanning loop is
\* running between two awaits of the execution loop.
C31_Witness ==
    /\ trades_executed = 2
    /\ trades_successful = 1
    /\ Suspended(exec_pc)
    /\ scan_pc = "process"

\* C32: in a built transaction maxFeePerGas is the max_gas_price of the
\* order and maxPriorityFeePerGas is at most maxFeePerGas.
C32_FeesRespectCeiling ==
    tx_data # NoTx =>
        /\ tx_data.maxFeePerGas = orders[1].max_gas_price
        /\ tx_data.maxPriorityFeePerGas <= tx_data.maxFeePerGas

\* The part of C32 that the code keeps: the fee cap is the order's ceiling.
C32_FeeCapIsCeiling ==
    tx_data # NoTx => tx_data.maxFeePerGas = orders[1].max_gas_price

\* C33: a trade is submitted no later than the deadline of the typed message
\* signed for its order.  (The clock stands still once the order has been
\* submitted, so now is the time of submission.)
C33_NoStaleSubmission ==
    tx_data # NoTx => now <= orders[1].signature.deadline

PendingWithProfit(p) ==
    \E t \in Trades :
        trades[t].status = "pending" /\ trades[t].estimated_profit = p

ExecutingWithProfit(p) ==
    \E t \in Trades :
        trades[t].status = "executing" /\ trades[t].estimated_profit = p

\* C34: while the execution loop keeps running, a pending trade is
\* eventually selected for execution, whatever its estimated_profit (of two
\* pending trades of one estimated_profit the loop selects the older, so the
\* trade selected at that profit is the one that has waited).
C34_NoStarvation ==
    \A p \in ExpectedProfits :
        PendingWithProfit(p) ~> ExecutingWithProfit(p)

\* The trade of highest estimated_profit is selected, admissions or not.
C34_BestIsSelected ==
    PendingWithProfit(3 * estimated_gas) ~>
        ExecutingWithProfit(3 * estimated_gas)

=============================================================================
